---- MODULE Spec2Model ----
(***************************************************************************)
(* State-machine model of parse_calls.py: the main() loop that replays a   *)
(* call/return trace on one stack per context key, emits one event per     *)
(* matched return, and aggregates per-function and per-edge durations.     *)
(*                                                                         *)
(* Timestamps are whole seconds (the code's floats restricted to integers,  *)
(* where float arithmetic is exact).  A context key is a tuple: <<pid>>     *)
(* when keyed by pid, <<pid, cpu>> when keyed by (pid, cpu).  Sequence      *)
(* positions are 1-based: position i here is Python index i-1, and the      *)
(* result 0 of the stack search is Python's None.                           *)
(***************************************************************************)
EXTENDS Integers, Sequences, FiniteSets

\* ---------------------------------------------------------------- bounds
MaxRecords == 3
MaxNested == 4
MaxTargets == 3

\* 1e6 of "dur_us = (ts - t0) * 1e6"
MICROS == 1000000

\* ------------------------------------------------------ input alphabets
\* (pid, cpu) of a record: one process seen on two cpus, and a second process
Contexts == {<<1, 0>>, <<1, 1>>, <<2, 0>>}
Timestamps == {0, 1}
Callers == {"A", "B"}
Callees == {"B", "C"}
\* (src_sym, dst_sym) of the call records of the multi-context traces
Calls == {<<"A", "B">>, <<"B", "C">>}
\* parent_sym of the return records
Parents == {"A"}
\* the one-context traces draw every caller/callee pair
NestContexts == {<<1, 0>>}
NestCalls == Callers \X Callees
\* the traces that vary the return target
TargetParents == {"A", "B"}

VARIABLES
  key_by_cpu,   \* args.key_by_cpu
  pc,           \* "read": inside the for-loop over the file; "done": after main()
  lines,        \* history: the call/return records consumed so far, in order
  stacks,       \* defaultdict(deque): key -> sequence of frames, bottom first
  events,       \* list of (pid, cpu, depth, caller, callee, t0, t1, dur_us)
  func_cnt, func_sum, func_min, func_max,
  edge_cnt, edge_sum, edge_min, edge_max,
  func_order,   \* iteration order of func_cnt (dict insertion order)
  edge_order,   \* iteration order of edge_cnt (dict insertion order)
  func_rows,    \* rows written to func_stats_csv
  edge_rows,    \* rows written to callgraph_stats_csv
  unclosed,     \* sum(len(v) for v in stacks.values())
  warned,       \* the [warn] line was written to stderr
  pushed_by,    \* history: key -> for each pending frame, the line that pushed it
  span_src,     \* history: for each event, its call line and its return line
  discarded     \* history: number of frames popped by the unwind loop

vars == <<key_by_cpu, pc, lines, stacks, events,
          func_cnt, func_sum, func_min, func_max,
          edge_cnt, edge_sum, edge_min, edge_max,
          func_order, edge_order, func_rows, edge_rows, unclosed, warned,
          pushed_by, span_src, discarded>>

aggregates == <<func_cnt, func_sum, func_min, func_max,
                edge_cnt, edge_sum, edge_min, edge_max, func_order, edge_order>>

outputs == <<func_rows, edge_rows, unclosed, warned>>

\* ------------------------------------------------------------- helpers
\* every duration the bounded timestamps can produce lies strictly between
\* -inf and inf
MaxTimestamp == CHOOSE t \in Timestamps : \A u \in Timestamps : u <= t
inf == (MaxTimestamp + 1) * MICROS

\* min with its arguments' roles exchanged
Min2Swapped(a, b) == IF b < a THEN a ELSE b

Min2(a, b) == IF b < a THEN b ELSE a
Max2(a, b) == IF b > a THEN b ELSE a

\* d[k] of a defaultdict whose factory returns dflt
DictGet(d, k, dflt) == IF k \in DOMAIN d THEN d[k] ELSE dflt
\* every key bound to the one shared value
DictPutShared(d, k, v) == [x \in (DOMAIN d) \cup {k} |-> v]

\* d[k] = v
DictPut(d, k, v) == [x \in (DOMAIN d) \cup {k} |-> IF x = k THEN v ELSE d[x]]
\* insertion order of a dict after d[k] = v
OrderPut(order, d, k) == IF k \in DOMAIN d THEN order ELSE Append(order, k)

\* the key without the cpu, whatever the option
KeyPidOnly(pid, cpu) == <<pid>>

Key(pid, cpu) == IF key_by_cpu THEN <<pid, cpu>> ELSE <<pid>>

\* stacks[key], which a defaultdict answers with an empty deque for a new key
StackOf(key) == DictGet(stacks, key, <<>>)
PushedBy(key) == DictGet(pushed_by, key, <<>>)

\* the search falling back on the top frame when nothing matches
FindIdxOrTop(stack, i, ret_sym) ==
  IF \E j \in 1..i : stack[j].callee = ret_sym
  THEN CHOOSE j \in 1..i : stack[j].callee = ret_sym /\ \A m \in (j + 1)..i : stack[m].callee # ret_sym
  ELSE i

\* the search running from the bottom of the stack upwards
FindIdxFromBottom(stack, i, ret_sym) ==
  IF \E j \in 1..i : stack[j].callee = ret_sym
  THEN CHOOSE j \in 1..i :
         stack[j].callee = ret_sym /\ \A m \in 1..(j - 1) : stack[m].callee # ret_sym
  ELSE 0

\* for i in range(len(stack)-1, -1, -1): if stack[i][0] == ret_sym: idx = i; break
RECURSIVE FindIdx(_, _, _)
FindIdx(stack, i, ret_sym) ==
  IF i = 0 THEN 0
  ELSE IF stack[i].callee = ret_sym THEN i
  ELSE FindIdx(stack, i - 1, ret_sym)

\* the unwind loop running one iteration too many
PopAboveInclusive(stack, idx) == SubSeq(stack, 1, idx - 1)

\* the unwind loop left out
PopAboveNone(stack, idx) == stack

\* while len(stack) - 1 > idx: stack.pop()      (idx is the 1-based position)
RECURSIVE PopAbove(_, _)
PopAbove(stack, idx) ==
  IF Len(stack) > idx THEN PopAbove(SubSeq(stack, 1, Len(stack) - 1), idx)
  ELSE stack

\* popleft() in place of pop()
PopLeft(stack) == Tail(stack)

\* clear() in place of pop()
PopClear(stack) == <<>>

\* stack.pop(): the deque without its last element
Pop(stack) == SubSeq(stack, 1, Len(stack) - 1)

\* the caller taken from the return record
SpanCallerFromReturn(frame, parent_sym) == parent_sym

\* callee, caller, t0, depth = stacks[key].pop(): the caller is the frame's
SpanCaller(frame, parent_sym) == frame.caller

\* the edge key with its two names exchanged
EdgeKeySwapped(caller, callee) == <<callee, caller>>

\* edge = (caller, callee)
EdgeKey(caller, callee) == <<caller, callee>>

\* the new event put in front of the list
RecordFirst(evs, ev) == <<ev>> \o evs

\* events.append(...)
Record(evs, ev) == Append(evs, ev)

\* the depth taken after the append
DepthAfterPush(stack) == Len(stack) + 1

\* depth = len(stacks[key]), taken before the append
DepthAtPush(stack) == Len(stack)

\* the subtraction the other way round
DurationReversed(ts, t0) == (t0 - ts) * MICROS

\* dur_us = (ts - t0) * 1e6
Duration(ts, t0) == (ts - t0) * MICROS

\* sum[k] -= dur_us
AccumulateNegated(total, dur_us) == total - dur_us

\* sum[k] += dur_us
Accumulate(total, dur_us) == total + dur_us

\* an insertion that places equal keys before those already there
RECURSIVE InsertBeforeEqual(_, _, _)
InsertBeforeEqual(sorted, x, sum) ==
  IF sorted = <<>> THEN <<x>>
  ELSE IF (0 - sum[sorted[1]]) >= (0 - sum[x]) THEN <<x>> \o sorted
  ELSE <<sorted[1]>> \o InsertBeforeEqual(Tail(sorted), x, sum)

\* sorted(items, key=lambda x: -sum[x[0]]): a stable ascending sort on -sum
RECURSIVE InsertByKey(_, _, _)
InsertByKey(sorted, x, sum) ==
  IF sorted = <<>> THEN <<x>>
  ELSE IF (0 - sum[sorted[1]]) > (0 - sum[x]) THEN <<x>> \o sorted
  ELSE <<sorted[1]>> \o InsertByKey(Tail(sorted), x, sum)

RECURSIVE SortedByTotal(_, _)
SortedByTotal(order, sum) ==
  IF order = <<>> THEN <<>>
  ELSE InsertByKey(SortedByTotal(SubSeq(order, 1, Len(order) - 1), sum),
                   order[Len(order)], sum)

\* one row of a statistics file; avg = total / cnt is kept as the fraction
StatRow(k, cnt, sum, mn, mx) ==
  [key |-> k, count |-> cnt[k], total |-> sum[k],
   avg |-> IF cnt[k] # 0 THEN <<sum[k], cnt[k]>> ELSE <<0, 1>>,
   min |-> mn[k], max |-> mx[k]]

StatRows(order, cnt, sum, mn, mx) ==
  LET s == SortedByTotal(order, sum)
  IN  [i \in 1..Len(s) |-> StatRow(s[i], cnt, sum, mn, mx)]

\* len(stacks) in place of the sum of the lengths
SumKeys(d, keys) == Cardinality(keys)

RECURSIVE SumLen(_, _)
SumLen(d, keys) ==
  IF keys = {} THEN 0
  ELSE LET k == CHOOSE x \in keys : TRUE
       IN  Len(d[k]) + SumLen(d, keys \ {k})

\* ---------------------------------------------------------------- Init
Init ==
  /\ key_by_cpu \in BOOLEAN
  /\ pc = "read"
  /\ lines = <<>>
  /\ stacks = <<>>
  /\ events = <<>>
  /\ func_cnt = <<>> /\ func_sum = <<>> /\ func_min = <<>> /\ func_max = <<>>
  /\ edge_cnt = <<>> /\ edge_sum = <<>> /\ edge_min = <<>> /\ edge_max = <<>>
  /\ func_order = <<>> /\ edge_order = <<>>
  /\ func_rows = <<>> /\ edge_rows = <<>>
  /\ unclosed = 0
  /\ warned = FALSE
  /\ pushed_by = <<>>
  /\ span_src = <<>>
  /\ discarded = 0

\* ------------------------------------------------------------- actions
\* a line matching CALL_RE
OnCall(pid, cpu, ts, caller, callee) ==
  /\ pc = "read"
  /\ LET key == Key(pid, cpu)
         depth == DepthAtPush(StackOf(key))
     IN  /\ stacks' = DictPut(stacks, key,
                        Append(StackOf(key),
                               [callee |-> callee, caller |-> caller,
                                t0 |-> ts, depth |-> depth]))
         /\ pushed_by' = DictPut(pushed_by, key,
                                 Append(PushedBy(key), Len(lines) + 1))
  /\ lines' = Append(lines, [kind |-> "call", pid |-> pid, cpu |-> cpu, ts |-> ts,
                             left |-> caller, right |-> callee])
  /\ UNCHANGED <<key_by_cpu, pc, events, aggregates, outputs, span_src, discarded>>

\* a line matching RET_RE whose context has no pending frame
ReturnEmptyStack(pid, cpu, ts, ret_sym, parent_sym) ==
  /\ pc = "read"
  /\ LET key == Key(pid, cpu)
     IN  /\ StackOf(key) = <<>>
         /\ stacks' = DictPut(stacks, key, <<>>)
         /\ pushed_by' = DictPut(pushed_by, key, <<>>)
  /\ lines' = Append(lines, [kind |-> "return", pid |-> pid, cpu |-> cpu, ts |-> ts,
                             left |-> ret_sym, right |-> parent_sym])
  /\ UNCHANGED <<key_by_cpu, pc, events, aggregates, outputs, span_src, discarded>>

\* a line matching RET_RE for which the search ends with idx = None
ReturnNoMatch(pid, cpu, ts, ret_sym, parent_sym) ==
  /\ pc = "read"
  /\ LET key == Key(pid, cpu)
     IN  /\ StackOf(key) # <<>>
         /\ FindIdx(StackOf(key), Len(StackOf(key)), ret_sym) = 0
  /\ lines' = Append(lines, [kind |-> "return", pid |-> pid, cpu |-> cpu, ts |-> ts,
                             left |-> ret_sym, right |-> parent_sym])
  /\ UNCHANGED <<key_by_cpu, pc, stacks, pushed_by, events, aggregates, outputs,
                 span_src, discarded>>

\* a line matching RET_RE that finds its frame: unwind, pop, record, aggregate
ReturnMatch(pid, cpu, ts, ret_sym, parent_sym) ==
  /\ pc = "read"
  /\ LET key == Key(pid, cpu)
         stack == StackOf(key)
         idx == FindIdx(stack, Len(stack), ret_sym)
     IN  /\ stack # <<>>
         /\ idx # 0
         /\ LET unwound == PopAbove(stack, idx)
                frame == unwound[Len(unwound)]
                callee == frame.callee
                caller == SpanCaller(frame, parent_sym)
                t0 == frame.t0
                depth == frame.depth
                dur_us == Duration(ts, t0)
                edge == EdgeKey(caller, callee)
            IN  /\ stacks' = DictPut(stacks, key, Pop(unwound))
                /\ pushed_by' = DictPut(pushed_by, key,
                                        SubSeq(PushedBy(key), 1, Len(unwound) - 1))
                /\ discarded' = discarded + (Len(stack) - Len(unwound))
                /\ span_src' = Append(span_src,
                                 [call |-> PushedBy(key)[Len(unwound)],
                                  ret |-> Len(lines) + 1])
                /\ events' = Record(events,
                               [pid |-> pid, cpu |-> cpu, depth |-> depth,
                                caller |-> caller, callee |-> callee,
                                t0 |-> t0, t1 |-> ts, dur_us |-> dur_us])
                /\ func_order' = OrderPut(func_order, func_cnt, callee)
                /\ func_cnt' = DictPut(func_cnt, callee, DictGet(func_cnt, callee, 0) + 1)
                /\ func_sum' = DictPut(func_sum, callee,
                                       Accumulate(DictGet(func_sum, callee, 0), dur_us))
                /\ func_min' = DictPut(func_min, callee,
                                       Min2(DictGet(func_min, callee, inf), dur_us))
                /\ func_max' = DictPut(func_max, callee,
                                       Max2(DictGet(func_max, callee, 0 - inf), dur_us))
                /\ edge_order' = OrderPut(edge_order, edge_cnt, edge)
                /\ edge_cnt' = DictPut(edge_cnt, edge, DictGet(edge_cnt, edge, 0) + 1)
                /\ edge_sum' = DictPut(edge_sum, edge,
                                       Accumulate(DictGet(edge_sum, edge, 0), dur_us))
                /\ edge_min' = DictPut(edge_min, edge,
                                       Min2(DictGet(edge_min, edge, inf), dur_us))
                /\ edge_max' = DictPut(edge_max, edge,
                                       Max2(DictGet(edge_max, edge, 0 - inf), dur_us))
  /\ lines' = Append(lines, [kind |-> "return", pid |-> pid, cpu |-> cpu, ts |-> ts,
                             left |-> ret_sym, right |-> parent_sym])
  /\ UNCHANGED <<key_by_cpu, pc, outputs>>

\* end of the file: write the statistics files, count the unclosed frames
EndOfStream ==
  /\ pc = "read"
  /\ pc' = "done"
  /\ func_rows' = StatRows(func_order, func_cnt, func_sum, func_min, func_max)
  /\ edge_rows' = StatRows(edge_order, edge_cnt, edge_sum, edge_min, edge_max)
  /\ unclosed' = SumLen(stacks, DOMAIN stacks)
  /\ warned' = (unclosed' # 0)
  /\ UNCHANGED <<key_by_cpu, lines, stacks, events, aggregates,
                 pushed_by, span_src, discarded>>

\* ------------------------------------------------------ specifications
\* any trace over several contexts, up to MaxRecords records
Next ==
  \/ /\ Len(lines) < MaxRecords
     /\ \E ctx \in Contexts, ts \in Timestamps, call \in Calls :
          OnCall(ctx[1], ctx[2], ts, call[1], call[2])
  \/ /\ Len(lines) < MaxRecords
     /\ \E ctx \in Contexts, ts \in Timestamps,
           ret_sym \in Callees, parent_sym \in Parents :
          ReturnEmptyStack(ctx[1], ctx[2], ts, ret_sym, parent_sym)
  \/ /\ Len(lines) < MaxRecords
     /\ \E ctx \in Contexts, ts \in Timestamps,
           ret_sym \in Callees, parent_sym \in Parents :
          ReturnNoMatch(ctx[1], ctx[2], ts, ret_sym, parent_sym)
  \/ /\ Len(lines) < MaxRecords
     /\ \E ctx \in Contexts, ts \in Timestamps,
           ret_sym \in Callees, parent_sym \in Parents :
          ReturnMatch(ctx[1], ctx[2], ts, ret_sym, parent_sym)
  \/ EndOfStream

Spec == Init /\ [][Next]_vars

\* longer traces of one context, up to MaxNested records
NextNested ==
  \/ /\ Len(lines) < MaxNested
     /\ \E ctx \in NestContexts, ts \in Timestamps, call \in NestCalls :
          OnCall(ctx[1], ctx[2], ts, call[1], call[2])
  \/ /\ Len(lines) < MaxNested
     /\ \E ctx \in NestContexts, ts \in Timestamps,
           ret_sym \in Callees, parent_sym \in Parents :
          ReturnEmptyStack(ctx[1], ctx[2], ts, ret_sym, parent_sym)
  \/ /\ Len(lines) < MaxNested
     /\ \E ctx \in NestContexts, ts \in Timestamps,
           ret_sym \in Callees, parent_sym \in Parents :
          ReturnNoMatch(ctx[1], ctx[2], ts, ret_sym, parent_sym)
  \/ /\ Len(lines) < MaxNested
     /\ \E ctx \in NestContexts, ts \in Timestamps,
           ret_sym \in Callees, parent_sym \in Parents :
          ReturnMatch(ctx[1], ctx[2], ts, ret_sym, parent_sym)
  \/ EndOfStream

\* the nested traces run under the default configuration (keyed by pid)
InitNested == Init /\ key_by_cpu = FALSE

SpecNested == InitNested /\ [][NextNested]_vars

\* short traces of one context whose returns name either return target
NextTargets ==
  \/ /\ Len(lines) < MaxTargets
     /\ \E ctx \in NestContexts, ts \in Timestamps, call \in NestCalls :
          OnCall(ctx[1], ctx[2], ts, call[1], call[2])
  \/ /\ Len(lines) < MaxTargets
     /\ \E ctx \in NestContexts, ts \in Timestamps,
           ret_sym \in Callees, parent_sym \in TargetParents :
          ReturnEmptyStack(ctx[1], ctx[2], ts, ret_sym, parent_sym)
  \/ /\ Len(lines) < MaxTargets
     /\ \E ctx \in NestContexts, ts \in Timestamps,
           ret_sym \in Callees, parent_sym \in TargetParents :
          ReturnNoMatch(ctx[1], ctx[2], ts, ret_sym, parent_sym)
  \/ /\ Len(lines) < MaxTargets
     /\ \E ctx \in NestContexts, ts \in Timestamps,
           ret_sym \in Callees, parent_sym \in TargetParents :
          ReturnMatch(ctx[1], ctx[2], ts, ret_sym, parent_sym)
  \/ EndOfStream

SpecTargets == InitNested /\ [][NextTargets]_vars

\* the for-loop takes the next line, or leaves at the end of the file, without
\* ever waiting: some step is taken as long as one is possible
SpecFair == InitNested /\ [][NextNested]_vars /\ WF_vars(NextNested)

\* ------------------------------------------------ vocabulary of the claims
AllKeys == {<<c[1]>> : c \in Contexts} \cup Contexts
Funcs == Callees
Edges == Callers \X Callees

\* the record consumed by the step that led here
LastLine == lines[Len(lines)]
KeyOfLine(l) == Key(l.pid, l.cpu)
\* the step consumes one record
Consumes == Len(lines') = Len(lines) + 1
Consumed == lines'[Len(lines')]
\* stacks[k] after the step
StackAfter(k) == DictGet(stacks', k, <<>>)
\* the last record produced the last event
LastLineEmitted ==
  /\ span_src # <<>>
  /\ span_src[Len(span_src)].ret = Len(lines)

CallLines == {n \in 1..Len(lines) : lines[n].kind = "call"}
CallsBefore(n) == Cardinality({m \in 1..(n - 1) : lines[m].kind = "call"})
ReturnsBefore(n) == Cardinality({m \in 1..(n - 1) : lines[m].kind = "return"})

\* the open calls (by line number) after the first n records when every
\* return closes the innermost open call
RECURSIVE Innermost(_)
Innermost(n) ==
  IF n = 0 THEN <<>>
  ELSE LET s == Innermost(n - 1)
       IN  IF lines[n].kind = "call" THEN Append(s, n)
           ELSE IF s = <<>> THEN s
           ELSE SubSeq(s, 1, Len(s) - 1)

\* the records are properly nested call/return pairs of one context
ProperlyNested ==
  /\ \A n \in 1..Len(lines) : KeyOfLine(lines[n]) = KeyOfLine(lines[1])
  /\ \A n \in 1..Len(lines) :
       lines[n].kind = "return" =>
         LET s == Innermost(n - 1)
         IN  /\ s # <<>>
             /\ lines[s[Len(s)]].right = lines[n].left
  /\ Innermost(Len(lines)) = <<>>

\* C1: a trace of N properly nested call/return pairs of one context yields
\* exactly N spans, one per call, each with the nesting level of its call as
\* depth, and leaves no pending frame (unclosed count 0 at end of stream).
C1_NestedPairs ==
  ProperlyNested =>
    /\ Len(events) = Cardinality(CallLines)
    /\ {span_src[i].call : i \in 1..Len(span_src)} = CallLines
    /\ \A i \in 1..Len(events) :
         events[i].depth =
           CallsBefore(span_src[i].call) - ReturnsBefore(span_src[i].call)
    /\ \A k \in AllKeys : StackOf(k) = <<>>
    /\ pc = "done" => unclosed = 0

C1_Witness ==
  /\ pc = "done"
  /\ ProperlyNested
  /\ Len(lines) = 4
  /\ \E i \in 1..Len(events) : events[i].depth = 1

\* the frames of the consumed return's context that carry its ret_sym
PendingMatches(l) ==
  {i \in 1..Len(StackOf(KeyOfLine(l))) : StackOf(KeyOfLine(l))[i].callee = l.left}

\* C2: a return whose ret_sym is the callee of no pending frame of its context
\* emits no span and leaves every stack's frames, the events and both
\* statistic tables unchanged.
C2_OrphanReturn ==
  [][ (Consumes /\ Consumed.kind = "return" /\ PendingMatches(Consumed) = {}) =>
        /\ events' = events
        /\ UNCHANGED aggregates
        /\ \A k \in AllKeys : StackAfter(k) = StackOf(k) ]_vars

C2_Witness ==
  /\ lines # <<>>
  /\ LastLine.kind = "return"
  /\ ~LastLineEmitted
  /\ StackOf(KeyOfLine(LastLine)) # <<>>
  /\ PendingMatches(LastLine) = {}
  /\ Len(lines) = 3

\* the highest position of a frame carrying the consumed return's ret_sym
MatchPos(l) == CHOOSE i \in PendingMatches(l) : \A j \in PendingMatches(l) : j <= i

RECURSIVE SumOver(_, _)
SumOver(d, keys) ==
  IF keys = {} THEN 0
  ELSE LET k == CHOOSE x \in keys : TRUE
       IN  d[k] + SumOver(d, keys \ {k})
TotalCount(cnt) == SumOver(cnt, DOMAIN cnt)

\* C3: a return matching a frame below the top removes the frames above it
\* without span or statistic update, emits exactly one span, built from the
\* matched frame, and leaves exactly the frames below the match on the stack.
C3_SkippedReturn ==
  [][ (/\ Consumes
       /\ Consumed.kind = "return"
       /\ PendingMatches(Consumed) # {}
       /\ MatchPos(Consumed) < Len(StackOf(KeyOfLine(Consumed)))) =>
        LET stack == StackOf(KeyOfLine(Consumed))
            idx == MatchPos(Consumed)
            span == [pid |-> Consumed.pid, cpu |-> Consumed.cpu,
                     depth |-> stack[idx].depth, caller |-> stack[idx].caller,
                     callee |-> stack[idx].callee, t0 |-> stack[idx].t0,
                     t1 |-> Consumed.ts,
                     dur_us |-> (Consumed.ts - stack[idx].t0) * 1000000]
        IN  /\ events' = Append(events, span)
            /\ StackAfter(KeyOfLine(Consumed)) = SubSeq(stack, 1, idx - 1)
            /\ TotalCount(func_cnt') = TotalCount(func_cnt) + 1
            /\ TotalCount(edge_cnt') = TotalCount(edge_cnt) + 1
            /\ func_cnt'[span.callee] = DictGet(func_cnt, span.callee, 0) + 1
            /\ edge_cnt'[<<span.caller, span.callee>>] =
                 DictGet(edge_cnt, <<span.caller, span.callee>>, 0) + 1
            /\ \A f \in (DOMAIN func_cnt) \ {span.callee} :
                 /\ func_cnt'[f] = func_cnt[f] /\ func_sum'[f] = func_sum[f]
                 /\ func_min'[f] = func_min[f] /\ func_max'[f] = func_max[f]
            /\ \A e \in (DOMAIN edge_cnt) \ {<<span.caller, span.callee>>} :
                 /\ edge_cnt'[e] = edge_cnt[e] /\ edge_sum'[e] = edge_sum[e]
                 /\ edge_min'[e] = edge_min[e] /\ edge_max'[e] = edge_max[e] ]_vars

C3_Witness ==
  /\ Len(lines) = 4
  /\ LastLineEmitted
  /\ discarded = 1
  /\ Len(events) = 1
  /\ StackOf(KeyOfLine(LastLine)) # <<>>

\* the events recorded for function f, for edge e
SpansOfFunc(f) == {i \in 1..Len(events) : events[i].callee = f}
SpansOfEdge(e) == {i \in 1..Len(events) : <<events[i].caller, events[i].callee>> = e}

RECURSIVE SumDur(_)
SumDur(spans) ==
  IF spans = {} THEN 0
  ELSE LET i == CHOOSE x \in spans : TRUE
       IN  events[i].dur_us + SumDur(spans \ {i})

\* the four tables hold count, sum, smallest and largest duration of spans
AggregatesOf(spans, k, cnt, sum, mn, mx) ==
  IF spans = {} THEN k \notin DOMAIN cnt
  ELSE /\ k \in DOMAIN cnt /\ k \in DOMAIN sum /\ k \in DOMAIN mn /\ k \in DOMAIN mx
       /\ cnt[k] = Cardinality(spans)
       /\ sum[k] = SumDur(spans)
       /\ \E i \in spans : mn[k] = events[i].dur_us
       /\ \A i \in spans : mn[k] <= events[i].dur_us
       /\ \E i \in spans : mx[k] = events[i].dur_us
       /\ \A i \in spans : mx[k] >= events[i].dur_us

\* C4: after every record, for each function and each edge, count is the
\* number of spans emitted with that key, total the sum of their durations,
\* min and max the smallest and the largest of them.
C4_Aggregates ==
  /\ \A f \in Funcs :
       AggregatesOf(SpansOfFunc(f), f, func_cnt, func_sum, func_min, func_max)
  /\ \A e \in Edges :
       AggregatesOf(SpansOfEdge(e), e, edge_cnt, edge_sum, edge_min, edge_max)
  /\ DOMAIN func_cnt \subseteq Funcs
  /\ DOMAIN edge_cnt \subseteq Edges

C4_Witness ==
  \E f \in DOMAIN func_cnt :
    /\ func_cnt[f] = 2
    /\ func_min[f] < func_max[f]
    /\ func_min[f] < 0
    /\ \E e \in DOMAIN edge_cnt : e[2] = f /\ edge_cnt[e] = 1

RECURSIVE PendingFrames(_)
PendingFrames(keys) ==
  IF keys = {} THEN 0
  ELSE LET k == CHOOSE x \in keys : TRUE
       IN  Len(StackOf(k)) + PendingFrames(keys \ {k})

\* the lines whose frame is still pending
PendingLines == UNION {{PushedBy(k)[i] : i \in 1..Len(PushedBy(k))} : k \in AllKeys}

SkippedReturnExample ==
  /\ Len(lines) = 3
  /\ lines[1].kind = "call" /\ lines[1].left = "A" /\ lines[1].right = "B"
  /\ lines[2].kind = "call" /\ lines[2].left = "B" /\ lines[2].right = "C"
  /\ lines[3].kind = "return" /\ lines[3].left = "B" /\ lines[3].right = "A"
  /\ KeyOfLine(lines[2]) = KeyOfLine(lines[1])
  /\ KeyOfLine(lines[3]) = KeyOfLine(lines[1])

\* C5: at end of stream the unclosed count is the number of frames pending
\* over all stacks: the calls consumed less those popped by a matched return
\* and those discarded by an unwind; a pending frame has no span; the trace
\* call A->B, call B->C, return B->A ends with count 0 and the one span A->B.
C5_Unclosed ==
  pc = "done" =>
    /\ unclosed = PendingFrames(AllKeys)
    /\ unclosed = Cardinality(CallLines) - Len(events) - discarded
    /\ unclosed = Cardinality(PendingLines)
    /\ warned = (unclosed > 0)
    /\ \A i \in 1..Len(span_src) : span_src[i].call \notin PendingLines
    /\ SkippedReturnExample =>
         /\ unclosed = 0
         /\ Len(events) = 1
         /\ events[1].caller = "A" /\ events[1].callee = "B"

C5_Witness ==
  /\ pc = "done"
  /\ unclosed = 1
  /\ Len(events) = 1
  /\ Len(lines) = 3
  /\ StackOf(KeyOfLine(lines[3])) = <<>>

\* C6: a record of key k leaves the stack of every other key unchanged, and
\* every span pairs a return with a call of the same key, whose frame it is.
C6_KeysIndependent ==
  [][ Consumes =>
        /\ \A k \in AllKeys \ {KeyOfLine(Consumed)} : StackAfter(k) = StackOf(k)
        /\ \A i \in 1..Len(span_src') :
             LET c == lines'[span_src'[i].call]
                 r == lines'[span_src'[i].ret]
             IN  /\ c.kind = "call" /\ r.kind = "return"
                 /\ KeyOfLine(c) = KeyOfLine(r)
                 /\ span_src'[i].call < span_src'[i].ret
                 /\ events'[i].callee = c.right /\ events'[i].caller = c.left
                 /\ events'[i].callee = r.left
                 /\ events'[i].pid = r.pid /\ events'[i].cpu = r.cpu ]_vars

C6_Witness ==
  /\ Len(lines) = 3
  /\ LastLineEmitted
  /\ \E k \in AllKeys \ {KeyOfLine(LastLine)} :
       /\ StackOf(k) # <<>>
       /\ StackOf(k)[1].callee = LastLine.left

Spanned(c, r) == \E i \in 1..Len(span_src) : span_src[i].call = c /\ span_src[i].ret = r

\* a call directly followed by a return of its callee, same pid, other cpu
MigratedPair(n) ==
  /\ n + 1 <= Len(lines)
  /\ lines[n].kind = "call" /\ lines[n + 1].kind = "return"
  /\ lines[n].pid = lines[n + 1].pid
  /\ lines[n].cpu # lines[n + 1].cpu
  /\ lines[n].right = lines[n + 1].left

\* C7: keyed by (pid, cpu), a return never matches a call of another cpu (or
\* pid); keyed by pid, a return matches calls of its pid on any cpu, so a call
\* followed by the return of its callee on another cpu is matched.
C7_KeyByCpu ==
  /\ \A i \in 1..Len(span_src) :
       LET c == lines[span_src[i].call]
           r == lines[span_src[i].ret]
       IN  /\ c.pid = r.pid
           /\ key_by_cpu => c.cpu = r.cpu
  /\ \A n \in 1..Len(lines) :
       MigratedPair(n) => (Spanned(n, n + 1) <=> ~key_by_cpu)
  /\ \A k \in DOMAIN stacks : Len(k) = IF key_by_cpu THEN 2 ELSE 1

C7_Witness ==
  /\ ~key_by_cpu
  /\ Len(lines) = 3
  /\ MigratedPair(2)
  /\ Spanned(2, 3)
  /\ lines[1].pid # lines[2].pid
  /\ Len(StackOf(<<lines[1].pid>>)) = 1

\* C8: each span's enter timestamp is that of the call record that pushed its
\* frame, its exit timestamp that of the return record that matched it, and
\* its duration (exit - enter) * 1,000,000.
C8_Duration ==
  \A i \in 1..Len(events) :
    /\ lines[span_src[i].call].kind = "call"
    /\ lines[span_src[i].call].right = events[i].callee
    /\ events[i].t0 = lines[span_src[i].call].ts
    /\ events[i].t1 = lines[span_src[i].ret].ts
    /\ events[i].dur_us = (events[i].t1 - events[i].t0) * 1000000

C8_Witness ==
  /\ Len(events) = 1
  /\ events[1].t0 = 0
  /\ events[1].t1 = 1
  /\ events[1].dur_us = 1000000
  /\ span_src[1].call = 1 /\ span_src[1].ret = 3

\* the step's new event, if any
Emits == Len(events') = Len(events) + 1
Emitted == events'[Len(events')]

\* C9 as stated: an entry, once created, is never removed and neither its
\* count nor its total is ever decremented.
C9_Original ==
  [][ /\ \A f \in DOMAIN func_cnt :
           /\ f \in DOMAIN func_cnt' /\ f \in DOMAIN func_sum'
           /\ func_cnt'[f] >= func_cnt[f]
           /\ func_sum'[f] >= func_sum[f]
      /\ \A e \in DOMAIN edge_cnt :
           /\ e \in DOMAIN edge_cnt' /\ e \in DOMAIN edge_sum'
           /\ edge_cnt'[e] >= edge_cnt[e]
           /\ edge_sum'[e] >= edge_sum[e] ]_vars

\* C9 (amended): an entry, once created, is never removed and its count never
\* decremented; its total is decremented only by a record whose span has that
\* key and a negative duration (a return stamped earlier than its call).
C9_Monotone ==
  [][ /\ \A f \in DOMAIN func_cnt :
           /\ f \in DOMAIN func_cnt' /\ f \in DOMAIN func_sum'
           /\ f \in DOMAIN func_min' /\ f \in DOMAIN func_max'
           /\ func_cnt'[f] >= func_cnt[f]
           /\ func_sum'[f] < func_sum[f] =>
                (Emits /\ Emitted.callee = f /\ Emitted.t1 < Emitted.t0)
      /\ \A e \in DOMAIN edge_cnt :
           /\ e \in DOMAIN edge_cnt' /\ e \in DOMAIN edge_sum'
           /\ e \in DOMAIN edge_min' /\ e \in DOMAIN edge_max'
           /\ edge_cnt'[e] >= edge_cnt[e]
           /\ edge_sum'[e] < edge_sum[e] =>
                (/\ Emits
                 /\ <<Emitted.caller, Emitted.callee>> = e
                 /\ Emitted.t1 < Emitted.t0) ]_vars

C9_Witness ==
  /\ Len(events) = 2
  /\ events[1].callee = events[2].callee
  /\ events[1].caller = events[2].caller
  /\ events[1].dur_us > 0
  /\ events[2].dur_us > 0
  /\ func_sum[events[1].callee] = 2000000

\* the first event recorded for a function, for an edge
FirstSpanOfFunc(f) == CHOOSE i \in SpansOfFunc(f) : \A j \in SpansOfFunc(f) : i <= j
FirstSpanOfEdge(e) == CHOOSE i \in SpansOfEdge(e) : \A j \in SpansOfEdge(e) : i <= j

\* C10: each snapshot lists every key once, by descending total, and keys
\* with equal totals in the order of their first span.
C10_SnapshotOrder ==
  pc = "done" =>
    /\ Len(func_rows) = Cardinality(DOMAIN func_cnt)
    /\ {func_rows[i].key : i \in 1..Len(func_rows)} = DOMAIN func_cnt
    /\ \A i, j \in 1..Len(func_rows) :
         i < j =>
           /\ func_rows[i].total >= func_rows[j].total
           /\ func_rows[i].total = func_rows[j].total =>
                FirstSpanOfFunc(func_rows[i].key) < FirstSpanOfFunc(func_rows[j].key)
    /\ \A i \in 1..Len(func_rows) : func_rows[i].total = func_sum[func_rows[i].key]
    /\ Len(edge_rows) = Cardinality(DOMAIN edge_cnt)
    /\ {edge_rows[i].key : i \in 1..Len(edge_rows)} = DOMAIN edge_cnt
    /\ \A i, j \in 1..Len(edge_rows) :
         i < j =>
           /\ edge_rows[i].total >= edge_rows[j].total
           /\ edge_rows[i].total = edge_rows[j].total =>
                FirstSpanOfEdge(edge_rows[i].key) < FirstSpanOfEdge(edge_rows[j].key)
    /\ \A i \in 1..Len(edge_rows) : edge_rows[i].total = edge_sum[edge_rows[i].key]

C10_Witness ==
  /\ pc = "done"
  /\ Len(func_rows) = 2
  /\ func_rows[1].total = func_rows[2].total
  /\ Len(edge_rows) = 2
  /\ edge_rows[1].total = edge_rows[2].total

\* the outputs written after the loop are those of the final tables and stacks
OutputsProduced ==
  /\ Len(func_rows) = Cardinality(DOMAIN func_cnt)
  /\ Len(edge_rows) = Cardinality(DOMAIN edge_cnt)
  /\ unclosed = PendingFrames(AllKeys)
  /\ Len(events) = Len(span_src)

\* a return of ret_sym in context key can be processed: the search ends inside
\* the stack and, on a match, the unwind loop stops with the matched frame on
\* top, so the final pop has a frame to pop
ReturnProcessable(key, ret_sym) ==
  LET stack == StackOf(key)
      idx == FindIdx(stack, Len(stack), ret_sym)
  IN  /\ idx \in 0..Len(stack)
      /\ idx # 0 =>
           /\ stack[idx].callee = ret_sym
           /\ Len(PopAbove(stack, idx)) = idx
           /\ PopAbove(stack, idx)[idx] = stack[idx]

\* C11: over every finite trace (orphan and skipped returns, unclosed frames,
\* out-of-order timestamps included) no return can fail, each step consumes
\* exactly one record and keeps the ones before, and the run reaches the end
\* of the stream with events, both snapshots and the unclosed count produced.
C11_RunsToCompletion ==
  /\ [](pc = "read" =>
          \A key \in AllKeys, ret_sym \in Callees : ReturnProcessable(key, ret_sym))
  /\ [][ /\ pc = "read"
         /\ pc' = "read" => (Consumes /\ SubSeq(lines', 1, Len(lines)) = lines)
         /\ pc' = "done" => (lines' = lines /\ OutputsProduced') ]_vars
  /\ <>(pc = "done" /\ OutputsProduced)

C11_Witness ==
  /\ pc = "done"
  /\ OutputsProduced
  /\ Len(lines) = 4
  /\ discarded = 1
  /\ Len(events) = 1
  /\ events[1].dur_us < 0
  /\ unclosed = 1

\* C13: when several pending frames carry the return's ret_sym, the return
\* matches the one closest to the top; those below it stay where they are.
C13_InnermostMatch ==
  [][ (/\ Consumes
       /\ Consumed.kind = "return"
       /\ Cardinality(PendingMatches(Consumed)) >= 2) =>
        LET stack == StackOf(KeyOfLine(Consumed))
            idx == MatchPos(Consumed)
        IN  /\ Emits
            /\ Emitted.depth = stack[idx].depth
            /\ Emitted.t0 = stack[idx].t0
            /\ Emitted.caller = stack[idx].caller
            /\ Emitted.callee = Consumed.left
            /\ StackAfter(KeyOfLine(Consumed)) = SubSeq(stack, 1, idx - 1)
            /\ \A j \in PendingMatches(Consumed) \ {idx} :
                 /\ j < idx
                 /\ StackAfter(KeyOfLine(Consumed))[j] = stack[j] ]_vars

\* recursion entered at different times, then one return of the function
C13_Witness ==
  /\ Len(lines) = 3
  /\ LastLineEmitted
  /\ lines[1].kind = "call" /\ lines[2].kind = "call"
  /\ lines[1].right = lines[2].right
  /\ lines[1].ts # lines[2].ts
  /\ events[1].t0 = lines[2].ts
  /\ Len(StackOf(KeyOfLine(LastLine))) = 1
  /\ StackOf(KeyOfLine(LastLine))[1].callee = LastLine.left

\* the tables cnt, sum, mn, mx after a span of duration d for key k
TablesUpdated(cnt, sum, mn, mx, cntN, sumN, mnN, mxN, k, d) ==
  /\ DOMAIN cntN = (DOMAIN cnt) \cup {k}
  /\ DOMAIN sumN = DOMAIN cntN /\ DOMAIN mnN = DOMAIN cntN /\ DOMAIN mxN = DOMAIN cntN
  /\ \A x \in (DOMAIN cnt) \ {k} :
       cntN[x] = cnt[x] /\ sumN[x] = sum[x] /\ mnN[x] = mn[x] /\ mxN[x] = mx[x]
  /\ IF k \in DOMAIN cnt
     THEN /\ cntN[k] = cnt[k] + 1
          /\ sumN[k] = sum[k] + d
          /\ mnN[k] = (IF d < mn[k] THEN d ELSE mn[k])
          /\ mxN[k] = (IF d > mx[k] THEN d ELSE mx[k])
     ELSE cntN[k] = 1 /\ sumN[k] = d /\ mnN[k] = d /\ mxN[k] = d

\* C14: what a return does is fixed by its context, timestamp and ret_sym
\* alone: stacks, events and both tables after the step are given by the
\* state before and those three, whatever its return target; the caller of
\* the span and of its edge key is the one stored in the frame.
C14_ReturnTargetIgnored ==
  [][ (Consumes /\ Consumed.kind = "return") =>
        LET key == KeyOfLine(Consumed)
            stack == StackOf(key)
        IN  /\ \A k \in AllKeys \ {key} : StackAfter(k) = StackOf(k)
            /\ IF PendingMatches(Consumed) = {}
               THEN /\ StackAfter(key) = stack
                    /\ events' = events
                    /\ UNCHANGED aggregates
               ELSE LET frame == stack[MatchPos(Consumed)]
                        d == (Consumed.ts - frame.t0) * 1000000
                    IN  /\ StackAfter(key) = SubSeq(stack, 1, MatchPos(Consumed) - 1)
                        /\ events' = Append(events,
                             [pid |-> Consumed.pid, cpu |-> Consumed.cpu,
                              depth |-> frame.depth, caller |-> frame.caller,
                              callee |-> frame.callee, t0 |-> frame.t0,
                              t1 |-> Consumed.ts, dur_us |-> d])
                        /\ TablesUpdated(func_cnt, func_sum, func_min, func_max,
                                         func_cnt', func_sum', func_min', func_max',
                                         frame.callee, d)
                        /\ TablesUpdated(edge_cnt, edge_sum, edge_min, edge_max,
                                         edge_cnt', edge_sum', edge_min', edge_max',
                                         <<frame.caller, frame.callee>>, d) ]_vars

\* a matched return, after an unwind, whose target is not its frame's caller
C14_Witness ==
  /\ Len(lines) = 3
  /\ LastLineEmitted
  /\ events[1].caller = "A"
  /\ LastLine.right = "B"
  /\ discarded = 1
  /\ DOMAIN edge_cnt = {<<"A", LastLine.left>>}

\* C15: a call record changes nothing but its own context's stack: it puts
\* one frame {callee, caller, t0 = its timestamp, depth = size of that stack
\* before} on top of the frames already there, emits nothing and leaves both
\* statistic tables as they are.
C15_CallPushesOneFrame ==
  [][ (Consumes /\ Consumed.kind = "call") =>
        LET key == KeyOfLine(Consumed)
        IN  /\ StackAfter(key) =
                 Append(StackOf(key),
                        [callee |-> Consumed.right, caller |-> Consumed.left,
                         t0 |-> Consumed.ts, depth |-> Len(StackOf(key))])
            /\ \A k \in AllKeys \ {key} : StackAfter(k) = StackOf(k)
            /\ events' = events
            /\ UNCHANGED aggregates
            /\ UNCHANGED outputs
            /\ pc' = "read" ]_vars

\* a call arriving on a non-empty stack, with a span already recorded
C15_Witness ==
  /\ Len(lines) = 3
  /\ LastLine.kind = "call"
  /\ Len(StackOf(KeyOfLine(LastLine))) = 2
  /\ StackOf(KeyOfLine(LastLine))[2].depth = 1
  /\ \E k \in AllKeys \ {KeyOfLine(LastLine)} : StackOf(k) # <<>>

\* C16: events are appended in the order of their return records: a step
\* adds at most one event, at the end, keeping the earlier ones, and only a
\* matched return adds one; so the event of an inner call precedes the event
\* of the call that encloses it.
C16_SpansInReturnOrder ==
  [][ /\ Len(events') \in {Len(events), Len(events) + 1}
      /\ SubSeq(events', 1, Len(events)) = events
      /\ Emits =>
           /\ Consumes
           /\ Consumed.kind = "return"
           /\ Emitted.t1 = Consumed.ts
           /\ Emitted.callee = Consumed.left
      /\ \A i \in 1..Len(events') :
           /\ events'[i].t1 = lines'[span_src'[i].ret].ts
           /\ events'[i].callee = lines'[span_src'[i].ret].left
           /\ events'[i].t0 = lines'[span_src'[i].call].ts
      /\ \A i, j \in 1..Len(events') :
           /\ i < j => span_src'[i].ret < span_src'[j].ret
           /\ (/\ span_src'[i].call < span_src'[j].call
               /\ span_src'[j].ret < span_src'[i].ret) => j < i ]_vars

\* two nested calls: the inner one returns, and is recorded, first
C16_Witness ==
  /\ Len(events) = 2
  /\ span_src[1].call = 2 /\ span_src[1].ret = 3
  /\ span_src[2].call = 1 /\ span_src[2].ret = 4
  /\ events[1] # events[2]

\* C17: the frame at position i of a stack (0 = bottom) has depth i, so the
\* depth of every event is the number of frames left on its context's stack
\* once its frame is popped, also after unwinds and orphan returns.
C17_DepthIsPosition ==
  [][ /\ \A k \in AllKeys :
           \A i \in 1..Len(StackAfter(k)) : StackAfter(k)[i].depth = i - 1
      /\ Emits => Emitted.depth = Len(StackAfter(KeyOfLine(Consumed))) ]_vars

\* an unwind by a return below the top, after an orphan return
C17_Witness ==
  /\ Len(lines) = 4
  /\ LastLineEmitted
  /\ lines[1].kind = "return"
  /\ discarded = 1
  /\ Len(events) = 1

ReturnLines == {n \in 1..Len(lines) : lines[n].kind = "return"}

\* C18: after any prefix of the trace, the calls consumed are the events
\* emitted plus the frames discarded by unwinds plus the frames pending, and
\* the events are no more than the returns consumed.
C18_Conservation ==
  /\ Cardinality(CallLines) = Len(events) + discarded + PendingFrames(AllKeys)
  /\ Len(events) <= Cardinality(ReturnLines)
  /\ Cardinality(CallLines) + Cardinality(ReturnLines) = Len(lines)

C18_Witness ==
  /\ Len(lines) = 3
  /\ discarded = 1
  /\ Len(events) = 1
  /\ PendingFrames(AllKeys) = 0

\* C19: the count (and the total) of a function is the sum of the counts (the
\* totals) of the edges into it, all function counts and all edge counts sum
\* to the number of events, and every entry has count >= 1 and min <= max.
C19_TablesConsistent ==
  /\ DOMAIN edge_cnt \subseteq Edges
  /\ DOMAIN func_cnt \subseteq Funcs
  /\ \A f \in Funcs :
       /\ DictGet(func_cnt, f, 0) =
            SumOver(edge_cnt, {e \in DOMAIN edge_cnt : e[2] = f})
       /\ DictGet(func_sum, f, 0) =
            SumOver(edge_sum, {e \in DOMAIN edge_sum : e[2] = f})
  /\ TotalCount(func_cnt) = Len(events)
  /\ TotalCount(edge_cnt) = Len(events)
  /\ \A f \in DOMAIN func_cnt : func_cnt[f] >= 1 /\ func_min[f] <= func_max[f]
  /\ \A e \in DOMAIN edge_cnt : edge_cnt[e] >= 1 /\ edge_min[e] <= edge_max[e]

\* one function reached over two edges
C19_Witness ==
  /\ DOMAIN func_cnt = {"B"}
  /\ func_cnt["B"] = 2
  /\ DOMAIN edge_cnt = {<<"A", "B">>, <<"B", "B">>}
  /\ func_min["B"] < func_max["B"]

\* the timestamps of the records of each context key never decrease
MonotonePerKey ==
  \A m, n \in 1..Len(lines) :
    (m < n /\ KeyOfLine(lines[m]) = KeyOfLine(lines[n])) => lines[m].ts <= lines[n].ts

\* event j's frame was pushed, in the same context, while event i's was pending
PushedWhilePending(i, j) ==
  /\ KeyOfLine(lines[span_src[i].call]) = KeyOfLine(lines[span_src[j].call])
  /\ span_src[i].call < span_src[j].call
  /\ span_src[j].call < span_src[i].ret

\* C20: when the timestamps of each context never decrease, every event has
\* exit >= enter (duration >= 0), and an event whose frame was pushed while
\* another's was pending lies within that other event's interval.
C20_MonotoneIntervals ==
  MonotonePerKey =>
    /\ \A i \in 1..Len(events) :
         events[i].t1 >= events[i].t0 /\ events[i].dur_us >= 0
    /\ \A i, j \in 1..Len(events) :
         PushedWhilePending(i, j) =>
           /\ events[i].t0 <= events[j].t0
           /\ events[j].t1 <= events[i].t1
           /\ events[j].t0 <= events[j].t1

C20_Witness ==
  /\ MonotonePerKey
  /\ Len(events) = 2
  /\ PushedWhilePending(2, 1)
  /\ events[2].t0 = 0 /\ events[2].t1 = 1
  /\ events[1].t0 = 1 /\ events[1].t1 = 1

====
